---- MODULE Spec2Model ----
(***************************************************************************)
(* Client-side state synchronisation of src/src/App.tsx: the App component *)
(* (player list, selection, selected-player snapshot, action log, pending  *)
(* text), its two effects, its three asynchronous fetch continuations and  *)
(* the remote resource they talk to.                                       *)
(*                                                                         *)
(* A text is a sequence of characters, a nullable value is a sequence of   *)
(* length at most one (<<>> is null).  A Player keeps its id and one       *)
(* attribute (hp), which stands for the five numeric attributes the client *)
(* only displays.                                                          *)
(***************************************************************************)
EXTENDS Integers, Sequences, FiniteSets, TLC

\* ------------------------------------------------------------------ bounds
\* requests the session may issue in total
MaxRequests == 4
\* requests in flight at one time
MaxInFlight == 2

\* ------------------------------------------------------------ environment
\* what the user may type into #action-input: nothing, a blank, a text with
\* a leading blank
Texts == {<<>>, <<" ">>, <<" ", "a">>}

P1 == [id |-> "p1", hp |-> 10]

P2 == [id |-> "p2", hp |-> 7]

\* what the remote resource may answer to ?resource=players
PlayerLists == {<<>>, <<P1>>, <<P2, P1>>}

\* actions the remote resource may already hold when the session starts
InitialDbs == {<<>>,
               <<[id |-> 1, player_id |-> "p1", action_text |-> <<" ", "a">>, turn_number |-> 1]>>}

Null == <<>>

FailedPlayersMessage == <<"Failed to fetch players">>

\* message of the error a rejected fetch() carries
TransportMessage == <<"Failed to fetch">>

\* ---------------------------------------------------------- pure helpers
IsWhitespace(c) == c = " "

RECURSIVE TrimStart(_)
TrimStart(s) ==
    IF s # <<>> /\ IsWhitespace(Head(s)) THEN TrimStart(Tail(s)) ELSE s

RECURSIVE TrimEnd(_)
TrimEnd(s) ==
    IF s # <<>> /\ IsWhitespace(s[Len(s)]) THEN TrimEnd(SubSeq(s, 1, Len(s) - 1)) ELSE s

\* String.prototype.trim
Trim(s) == TrimEnd(TrimStart(s))

\* a lookup that takes the first player whatever its id
Find_First(ps, id) == IF ps = <<>> THEN Null ELSE <<Head(ps)>>

\* players.find(p => p.id === id) || null
RECURSIVE Find(_, _)
Find(ps, id) ==
    IF ps = <<>> THEN Null
    ELSE IF Head(ps).id = id THEN <<Head(ps)>>
    ELSE Find(Tail(ps), id)

\* the parsed body taken as it is
Coerce_Raw(data) == data.items

\* Array.isArray(data) ? data : []
Coerce(data) == IF data.isArray THEN data.items ELSE <<>>

\* the count itself, without the increment
NextTurn_Count(log) == Len(log)

\* actions.length + 1
NextTurn(log) == Len(log) + 1

\* the test without trim(): only the empty text is rejected
SubmitRejected_NoTrim(sel, text) == sel = "" \/ text = <<>>

\* !selectedPlayerId || !newActionText.trim()
SubmitRejected(sel, text) == sel = "" \/ Trim(text) = <<>>

\* the remote resource's answer to ?resource=actions&player_id=pid
RECURSIVE ActionsOf(_, _)
ActionsOf(store, pid) ==
    IF store = <<>> THEN <<>>
    ELSE IF Head(store).player_id = pid
         THEN <<Head(store)>> \o ActionsOf(Tail(store), pid)
         ELSE ActionsOf(Tail(store), pid)

\* ------------------------------------------------------------------ state
VARIABLES
    players,            \* useState<Player[]>
    playersGen,         \* identity of the players array (a new array per setPlayers)
    selectedPlayerId,   \* useState<string>, "" is no selection
    selectedPlayer,     \* useState<Player | null>
    actions,            \* useState<PlayerAction[]>, the action log
    newActionText,      \* useState<string>, the pending text buffer
    loading,            \* useState<boolean>
    error,              \* useState<string | null>
    alerts,             \* number of alert() notifications raised
    effectDeps,         \* dependencies the synchronisation effect last ran with
    net,                \* requests in flight
    issued,             \* number of requests issued so far
    db,                 \* actions held by the remote resource
    preexisting,        \* how many of them it held before the session
    startup,            \* fate of the startup list-players request
    fresh,              \* the list-actions request of the last effect run resolved successfully
    submittedOk,        \* the last create, made under this selection, succeeded; no refresh failed since
    lastEvent           \* the handler that ran last

vars == <<players, playersGen, selectedPlayerId, selectedPlayer, actions,
          newActionText, loading, error, alerts, effectDeps, net, issued, db,
          preexisting, startup, fresh, submittedOk, lastEvent>>

\* the seven useState fields
store == <<players, selectedPlayerId, selectedPlayer, actions, newActionText,
           loading, error>>

Init ==
    /\ players = <<>>
    /\ playersGen = 0
    /\ selectedPlayerId = ""
    /\ selectedPlayer = Null
    /\ actions = <<>>
    /\ newActionText = <<>>
    /\ loading = FALSE
    /\ error = Null
    /\ alerts = 0
    /\ effectDeps = <<"unmounted", 0>>
    /\ net = {}
    /\ issued = 0
    /\ db \in InitialDbs
    /\ preexisting = Len(db)
    /\ startup = "unmounted"
    /\ fresh = FALSE
    /\ submittedOk = FALSE
    /\ lastEvent = "init"

\* ---------------------------------------------------------------- requests
NoData == [isArray |-> TRUE, items |-> <<>>]

\* a parsed body that is not an array: an object, here a value that is no sequence
NotArrayData == [isArray |-> FALSE, items |-> [i \in {0} |-> "object"]]

\* what a request is from its issue to its resolution
Same(r, q) ==
    /\ r.kind = q.kind /\ r.player_id = q.player_id /\ r.action_text = q.action_text
    /\ r.turn_number = q.turn_number /\ r.from = q.from

\* A request has an id that tells it from the requests in flight that are
\* the same as it, the smallest one free.  from and cur remember who issued
\* it ("mount", "effect" or "submit") and that the selection has not changed
\* since.
FreeId(reqs, q) ==
    LET same == {r \in reqs : Same(r, q)}
    IN  CHOOSE n \in 0..Cardinality(same) :
            /\ \A r \in same : r.id # n
            /\ \A m \in 0..(n - 1) : \E r \in same : r.id = m

Numbered(reqs, q) == [q EXCEPT !.id = FreeId(reqs, q)]

\* fetch(`${API_URL}?resource=players`)
PlayersRequest(reqs) ==
    Numbered(reqs,
        [id |-> 0, kind |-> "players", player_id |-> "", action_text |-> <<>>,
         turn_number |-> 0, status |-> "pending", data |-> NoData,
         from |-> "mount", cur |-> TRUE])

\* fetch(`${API_URL}?resource=actions&player_id=${playerId}`)
ActionsRequest(reqs, playerId, by) ==
    Numbered(reqs,
        [id |-> 0, kind |-> "actions", player_id |-> playerId, action_text |-> <<>>,
         turn_number |-> 0, status |-> "pending", data |-> NoData,
         from |-> by, cur |-> TRUE])

\* fetch(`${API_URL}?resource=actions`, {method: 'POST', body: ...}); player_id
\* is also the selectedPlayerId the continuation's closure holds
CreateRequest(reqs, playerId, text, turn) ==
    Numbered(reqs,
        [id |-> 0, kind |-> "create", player_id |-> playerId, action_text |-> text,
         turn_number |-> turn, status |-> "pending", data |-> NoData,
         from |-> "submit", cur |-> TRUE])

Pending(kind) == {r \in net : r.kind = kind /\ r.status = "pending"}

Answered(kind) == {r \in net : r.kind = kind /\ r.status = "ok"}

\* ------------------------------------------------- synchronisation effect
\* the effect has run for the current (selectedPlayerId, players)
EffectIdle == effectDeps = <<selectedPlayerId, playersGen>>

\* setSelectedPlayer(player || null) / setSelectedPlayer(null)
EffectSnapshot(sel, ps) == IF sel # "" THEN Find(ps, sel) ELSE Null

\* an effect that forgets setActions([])
EffectActions_Keep(sel, log) == log

\* setActions([]) in the else branch; the log is left alone otherwise
EffectActions(sel, log) == IF sel # "" THEN log ELSE <<>>

\* fetchActions(selectedPlayerId) up to its await
EffectRequests(sel, reqs) == IF sel # "" THEN {ActionsRequest(reqs, sel, "effect")} ELSE {}

\* first render: both effects run, fetchPlayers() up to its await and the
\* synchronisation effect with the initial (empty) selection
Mount ==
    /\ startup = "unmounted"
    /\ Cardinality(net) < MaxInFlight
    /\ issued < MaxRequests
    /\ issued' = issued + 1 + Cardinality(EffectRequests(selectedPlayerId, net))
    /\ loading' = TRUE
    /\ net' = LET sent == net \cup {PlayersRequest(net)}
              IN  sent \cup EffectRequests(selectedPlayerId, sent)
    /\ selectedPlayer' = EffectSnapshot(selectedPlayerId, players)
    /\ actions' = EffectActions(selectedPlayerId, actions)
    /\ effectDeps' = <<selectedPlayerId, playersGen>>
    /\ startup' = "inflight"
    /\ lastEvent' = "mount"
    /\ UNCHANGED <<preexisting, players, playersGen, selectedPlayerId, newActionText, error,
                   alerts, db, fresh, submittedOk>>

\* re-run of the effect after selectedPlayerId or players changed; React runs
\* it before it handles the next event or applies the next update
SyncEffect ==
    /\ startup # "unmounted"
    /\ ~EffectIdle
    /\ Cardinality(net) + Cardinality(EffectRequests(selectedPlayerId, net)) <= MaxInFlight
    /\ issued + Cardinality(EffectRequests(selectedPlayerId, net)) <= MaxRequests
    /\ issued' = issued + Cardinality(EffectRequests(selectedPlayerId, net))
    /\ selectedPlayer' = EffectSnapshot(selectedPlayerId, players)
    /\ actions' = EffectActions(selectedPlayerId, actions)
    /\ net' = net \cup EffectRequests(selectedPlayerId, net)
    /\ effectDeps' = <<selectedPlayerId, playersGen>>
    /\ fresh' = FALSE
    /\ lastEvent' = "effect"
    /\ UNCHANGED <<preexisting, players, playersGen, selectedPlayerId, newActionText, loading,
                   error, alerts, db, startup, submittedOk>>

\* ------------------------------------------------------------ user events
\* the <option> values of #player-select
Options(ps) == {""} \cup {ps[i].id : i \in 1..Len(ps)}

\* onChange of #player-select: setSelectedPlayerId(e.target.value)
SelectPlayer(id) ==
    /\ startup # "unmounted"
    /\ EffectIdle
    /\ ~loading
    /\ id \in Options(players)
    /\ id # selectedPlayerId
    /\ selectedPlayerId' = id
    /\ net' = {[r EXCEPT !.cur = FALSE] : r \in net}
    /\ fresh' = FALSE
    /\ submittedOk' = FALSE
    /\ lastEvent' = "select"
    /\ UNCHANGED <<preexisting, players, playersGen, selectedPlayer, actions, newActionText,
                   loading, error, alerts, effectDeps, issued, db, startup>>

\* #player-details, and the form in it, is rendered
FormRendered == selectedPlayer # Null

\* onChange of #action-input: setNewActionText(e.target.value)
ChangeText(t) ==
    /\ EffectIdle
    /\ FormRendered
    /\ t # newActionText
    /\ newActionText' = t
    /\ lastEvent' = "type"
    /\ UNCHANGED <<preexisting, players, playersGen, selectedPlayerId, selectedPlayer, actions,
                   loading, error, alerts, effectDeps, net, issued, db, startup,
                   fresh, submittedOk>>

\* handleSubmitAction up to its await.  A submit event reaches the handler
\* whatever the text is (a dispatched submit event skips the textarea's
\* required check); the handler's own test decides.
SubmitAction ==
    /\ EffectIdle
    /\ FormRendered
    /\ IF SubmitRejected(selectedPlayerId, newActionText)
       THEN UNCHANGED <<net, issued, submittedOk>>
       ELSE /\ issued < MaxRequests
            /\ Cardinality(net) < MaxInFlight
            /\ net' = net \cup {CreateRequest(net, selectedPlayerId,
                                              newActionText, NextTurn(actions))}
            /\ issued' = issued + 1
            /\ submittedOk' = FALSE
    /\ lastEvent' = "submit"
    /\ UNCHANGED <<preexisting, players, playersGen, selectedPlayerId, selectedPlayer, actions,
                   newActionText, loading, error, alerts, effectDeps, db, startup,
                   fresh>>

\* -------------------------------------------------------- remote resource
Answer(r, st, d) == [r EXCEPT !.status = st, !.data = d]

\* GET ?resource=players answered
ServerListPlayers(r) ==
    /\ r \in Pending("players")
    /\ \E d \in {[isArray |-> TRUE, items |-> ps] : ps \in PlayerLists} \cup {NotArrayData} :
          net' = (net \ {r}) \cup {Answer(r, "ok", d)}
    /\ UNCHANGED <<preexisting, players, playersGen, selectedPlayerId, selectedPlayer, actions,
                   newActionText, loading, error, alerts, effectDeps, issued, db,
                   startup, fresh, submittedOk, lastEvent>>

\* GET ?resource=actions&player_id= answered with the actions held for the player
ServerListActions(r) ==
    /\ r \in Pending("actions")
    /\ \E d \in {[isArray |-> TRUE, items |-> ActionsOf(db, r.player_id)], NotArrayData} :
          net' = (net \ {r}) \cup {Answer(r, "ok", d)}
    /\ UNCHANGED <<preexisting, players, playersGen, selectedPlayerId, selectedPlayer, actions,
                   newActionText, loading, error, alerts, effectDeps, issued, db,
                   startup, fresh, submittedOk, lastEvent>>

\* POST ?resource=actions persisted
ServerCreateAction(r) ==
    /\ r \in Pending("create")
    /\ db' = Append(db, [id |-> Len(db) + 1, player_id |-> r.player_id,
                         action_text |-> r.action_text, turn_number |-> r.turn_number])
    /\ net' = (net \ {r}) \cup {Answer(r, "ok", NoData)}
    /\ UNCHANGED <<preexisting, players, playersGen, selectedPlayerId, selectedPlayer, actions,
                   newActionText, loading, error, alerts, effectDeps, issued,
                   startup, fresh, submittedOk, lastEvent>>

\* ---------------------------------------------------------- continuations
\* The await of request r ends in the catch block: the remote resource
\* refuses the request and its non-success response arrives (cause "status"),
\* or fetch() itself rejects (cause "transport"), which can happen to a
\* request at any point of its flight, before the remote resource saw it or
\* after it answered.
Fails(r, cause) ==
    \/ cause = "status" /\ r.status = "pending"
    \/ cause = "transport"

\* setLoading(false) placed in the try block, skipped when the await throws
LoadingAfter_TryOnly(ok) == ~ok

\* finally { setLoading(false) }: runs whether the await succeeded or not
LoadingAfter(ok) == FALSE

\* a catch block that records no message
PlayersErrorMessage_None(st) == Null

\* err instanceof Error ? err.message : 'Unknown error'
PlayersErrorMessage(st) == IF st = "status" THEN FailedPlayersMessage ELSE TransportMessage

\* fetchPlayers after its await, response.ok: setPlayers, finally setLoading(false)
FetchPlayersOk(r) ==
    /\ EffectIdle
    /\ r \in Answered("players")
    /\ players' = Coerce(r.data)
    /\ playersGen' = playersGen + 1
    /\ loading' = LoadingAfter(TRUE)
    /\ net' = net \ {r}
    /\ startup' = "ok"
    /\ lastEvent' = IF r.data.isArray THEN "playersOk" ELSE "playersCoerced"
    /\ UNCHANGED <<preexisting, selectedPlayerId, selectedPlayer, actions, newActionText, error,
                   alerts, effectDeps, issued, db, fresh, submittedOk>>

\* fetchPlayers after its await, catch: setError, finally setLoading(false)
FetchPlayersFail(r, cause) ==
    /\ EffectIdle
    /\ r \in net
    /\ r.kind = "players"
    /\ Fails(r, cause)
    /\ error' = PlayersErrorMessage(cause)
    /\ loading' = LoadingAfter(FALSE)
    /\ net' = net \ {r}
    /\ startup' = "failed"
    /\ lastEvent' = "playersFail"
    /\ UNCHANGED <<preexisting, players, playersGen, selectedPlayerId, selectedPlayer, actions,
                   newActionText, alerts, effectDeps, issued, db, fresh,
                   submittedOk>>

\* a log that grows by what was fetched
ReplacedLog_Append(log, data) == log \o Coerce(data)

\* setActions(...) with the fetched array: the previous log is dropped
ReplacedLog(log, data) == Coerce(data)

\* a catch block that also empties the log
LogAfterFailure_Cleared(log) == <<>>

\* the catch block of fetchActions leaves the log alone
LogAfterFailure(log) == log

\* fetchActions after its await, response.ok: setActions(Array.isArray(data) ? data : [])
FetchActionsOk(r) ==
    /\ EffectIdle
    /\ r \in Answered("actions")
    /\ actions' = ReplacedLog(actions, r.data)
    /\ net' = net \ {r}
    /\ fresh' = (fresh \/ (r.from = "effect" /\ r.cur))
    /\ submittedOk' = (submittedOk /\ r.data.isArray)
    /\ lastEvent' = IF r.data.isArray THEN "actionsOk" ELSE "actionsCoerced"
    /\ UNCHANGED <<preexisting, players, playersGen, selectedPlayerId, selectedPlayer,
                   newActionText, loading, error, alerts, effectDeps, issued, db,
                   startup>>

\* fetchActions after its await, catch: console.error only
FetchActionsFail(r, cause) ==
    /\ EffectIdle
    /\ r \in net
    /\ r.kind = "actions"
    /\ Fails(r, cause)
    /\ actions' = LogAfterFailure(actions)
    /\ net' = net \ {r}
    /\ submittedOk' = FALSE
    /\ lastEvent' = "actionsFail"
    /\ UNCHANGED <<preexisting, players, playersGen, selectedPlayerId, selectedPlayer,
                   newActionText, loading, error, alerts, effectDeps, issued, db,
                   startup, fresh>>

\* the text buffer after a successful create: setNewActionText('')
ClearedText(text) == <<>>

\* a refresh for whatever is selected when the response arrives
RefreshPlayer_Current(r, sel) == sel

\* the player the refresh after a successful create is for: the
\* selectedPlayerId of the closure, which is the player_id that was sent
RefreshPlayer(r, sel) == r.player_id

\* an optimistic insertion of the action that was sent
LogAfterCreate_Insert(log, r) ==
    Append(log, [id |-> 0, player_id |-> r.player_id, action_text |-> r.action_text,
                 turn_number |-> r.turn_number])

\* the success branch never calls setActions: the log waits for the refresh
LogAfterCreate(log, r) == log

\* handleSubmitAction after its await, response.ok: clear the text, refresh the log
SubmitOk(r) ==
    /\ EffectIdle
    /\ r \in Answered("create")
    /\ issued < MaxRequests
    /\ issued' = issued + 1
    /\ newActionText' = ClearedText(newActionText)
    /\ net' = (net \ {r}) \cup {ActionsRequest(net \ {r}, RefreshPlayer(r, selectedPlayerId), "submit")}
    /\ actions' = LogAfterCreate(actions, r)
    /\ submittedOk' = r.cur
    /\ lastEvent' = "createOk"
    /\ UNCHANGED <<preexisting, players, playersGen, selectedPlayerId, selectedPlayer,
                   loading, error, alerts, effectDeps, db, startup, fresh>>

\* a catch block that also clears the draft
KeptText_Cleared(text) == <<>>

\* the text buffer after a failed create: untouched
KeptText(text) == text

\* handleSubmitAction after its await, catch: alert(...)
SubmitFail(r, cause) ==
    /\ EffectIdle
    /\ r \in net
    /\ r.kind = "create"
    /\ Fails(r, cause)
    /\ alerts' = alerts + 1
    /\ newActionText' = KeptText(newActionText)
    /\ net' = net \ {r}
    /\ lastEvent' = "createFail"
    /\ UNCHANGED <<preexisting, players, playersGen, selectedPlayerId, selectedPlayer, actions,
                   loading, error, effectDeps, issued, db, startup, fresh,
                   submittedOk>>

\* ---------------------------------------------------------- specification
Next ==
    \/ Mount
    \/ SyncEffect
    \/ \E id \in {"", "p1", "p2"} : SelectPlayer(id)
    \/ \E t \in Texts : ChangeText(t)
    \/ SubmitAction
    \/ \E r \in net : ServerListPlayers(r)
    \/ \E r \in net : ServerListActions(r)
    \/ \E r \in net : ServerCreateAction(r)
    \/ \E r \in net : FetchPlayersOk(r)
    \/ \E r \in net, cause \in {"status", "transport"} : FetchPlayersFail(r, cause)
    \/ \E r \in net : FetchActionsOk(r)
    \/ \E r \in net, cause \in {"status", "transport"} : FetchActionsFail(r, cause)
    \/ \E r \in net : SubmitOk(r)
    \/ \E r \in net, cause \in {"status", "transport"} : SubmitFail(r, cause)

Spec == Init /\ [][Next]_vars

\* the await of the startup request ends, one way or the other
ResolvePlayers ==
    \E r \in net : \/ FetchPlayersOk(r)
                   \/ \E cause \in {"status", "transport"} : FetchPlayersFail(r, cause)

\* a step of the startup sequence: the component mounts and runs its mount
\* effect, the remote resource answers the startup request, or the browser
\* delivers the outcome
StartupStep ==
    \/ Mount
    \/ \E r \in net : ServerListPlayers(r)
    \/ ResolvePlayers

\* the startup sequence is not postponed forever
FairSpec == Spec /\ WF_vars(StartupStep)

TypeOK ==
    /\ selectedPlayerId \in {"", "p1", "p2"}
    /\ Len(selectedPlayer) <= 1
    /\ Len(error) <= 1
    /\ loading \in BOOLEAN
    /\ issued \in 0..MaxRequests
    /\ alerts \in 0..issued
    /\ Cardinality(net) <= MaxInFlight
    /\ newActionText \in Texts \cup {<<>>}

\* ------------------------------------------------------------- properties
\* requests issued by the step
NewRequests ==
    {q \in net' : q.status = "pending" /\ \A r \in net : [r EXCEPT !.cur = q.cur] # q}

\* requests of the kind whose await ended in the step
Resolved(kind) ==
    {r \in net : r.kind = kind /\ \A q \in net' : ~(q.id = r.id /\ Same(q, r))}

IsBlank(text) == \A i \in 1..Len(text) : text[i] = " "

InFlight(kinds) == {r \in net : r.kind \in kinds}

\* C1: once the list-actions fetch issued for the current (non-empty)
\* selection has resolved successfully, the action log holds only entries of
\* the selected player, until the selection changes again.
C1_LogOfSelectedPlayer ==
    (selectedPlayerId # "" /\ fresh) =>
        \A i \in 1..Len(actions) : actions[i].player_id = selectedPlayerId

\* C2: after a create succeeded under the current selection, once no
\* list-actions (and no create) request is in flight and none has failed, the
\* action log equals the actions the remote resource holds for the player.
C2_LogReflectsServer ==
    (submittedOk /\ InFlight({"actions", "create"}) = {}) =>
        actions = ActionsOf(db, selectedPlayerId)

\* C3: the step in which a create-action request resolves with success
\* empties the text buffer and issues exactly one request, a list-actions
\* request for the player_id that was sent; and a list-actions request is
\* issued only by such a step or by the synchronisation effect, never by the
\* submit event itself.
C3_SuccessClearsAndRefreshes ==
    [][ /\ \A r \in Resolved("create") :
             lastEvent' = "createOk" =>
                 /\ newActionText' = <<>>
                 /\ Cardinality(NewRequests) = 1
                 /\ \A q \in NewRequests : q.kind = "actions" /\ q.player_id = r.player_id
        /\ \A q \in NewRequests :
             q.kind = "actions" =>
                 \/ effectDeps' # effectDeps
                 \/ \E r \in Resolved("create") : r.status = "ok" /\ lastEvent' = "createOk"
      ]_vars

C3_Witness ==
    /\ lastEvent = "createOk"
    /\ newActionText = <<>>
    /\ \E q \in net : /\ q.kind = "actions" /\ q.status = "pending"
                      /\ q.player_id # selectedPlayerId

\* C4: the step in which a create-action request fails raises one blocking
\* notification, leaves text buffer, action log, error message, player list,
\* selection and snapshot unchanged, and issues no request.
C4_FailureKeepsDraft ==
    [][ (Resolved("create") # {} /\ lastEvent' = "createFail") =>
            /\ alerts' = alerts + 1
            /\ UNCHANGED <<newActionText, actions, error, players,
                           selectedPlayerId, selectedPlayer>>
            /\ NewRequests = {}
      ]_vars

C4_Witness ==
    /\ lastEvent = "createFail"
    /\ alerts > 0
    /\ newActionText # <<>>
    /\ ~IsBlank(newActionText)

\* C5: a submit made while the selection is empty or the text is empty or
\* whitespace-only issues no request and changes none of the state fields.
C5_BlankSubmitDoesNothing ==
    [][ (lastEvent' = "submit" /\ (selectedPlayerId = "" \/ IsBlank(newActionText))) =>
            /\ UNCHANGED store
            /\ NewRequests = {}
      ]_vars

C5_Witness ==
    /\ lastEvent = "submit"
    /\ selectedPlayerId # ""
    /\ newActionText # <<>>
    /\ IsBlank(newActionText)

\* C6: a create-action request carries turn_number = N + 1 for the N entries
\* the action log holds at the submit event, the selection and the text of
\* that moment, and keeps them while it is in flight.
C6_RequestCarriesSubmitState ==
    [][ /\ \A q \in NewRequests :
             q.kind = "create" =>
                 /\ q.turn_number = Len(actions) + 1
                 /\ q.player_id = selectedPlayerId
                 /\ q.action_text = newActionText
        /\ \A q \in net' :
             q.kind = "create" =>
                 \/ q \in NewRequests
                 \/ \E r \in net : /\ r.kind = "create" /\ r.id = q.id
                                    /\ q.turn_number = r.turn_number
                                    /\ q.player_id = r.player_id
                                    /\ q.action_text = r.action_text
      ]_vars

C6_Witness ==
    /\ lastEvent = "submit"
    /\ actions # <<>>
    /\ \E r \in net : /\ r.kind = "create" /\ r.status = "pending"
                      /\ r.turn_number = Len(actions) + 1
                      /\ r.turn_number > 1

\* C7: the actions of one player persisted during the session carry
\* strictly increasing turn numbers.
C7_TurnNumbersIncrease ==
    \A i, j \in (preexisting + 1)..Len(db) :
        (i < j /\ db[i].player_id = db[j].player_id) =>
            db[i].turn_number < db[j].turn_number

\* C8: once the synchronisation effect has run for the current selection
\* and player list, the snapshot is the player of the list whose id is the
\* selection, and none when the selection is empty or not in the list.
C8_SnapshotIsSelectedPlayer ==
    (startup # "unmounted" /\ EffectIdle) =>
        IF selectedPlayerId # "" /\ \E i \in 1..Len(players) : players[i].id = selectedPlayerId
        THEN \E i \in 1..Len(players) : /\ players[i].id = selectedPlayerId
                                        /\ selectedPlayer = <<players[i]>>
        ELSE selectedPlayer = Null

C8_Witness ==
    /\ EffectIdle
    /\ players = <<P2, P1>>
    /\ selectedPlayerId = "p1"
    /\ selectedPlayer = <<P1>>

\* C9: the run of the synchronisation effect after the selection went from
\* a player to empty sets the snapshot to none and the action log to empty
\* and issues no request.
C9_DeselectClears ==
    [][ (/\ effectDeps' # effectDeps
         /\ effectDeps[1] \notin {"", "unmounted"}
         /\ selectedPlayerId = "") =>
            /\ selectedPlayer' = Null
            /\ actions' = <<>>
            /\ NewRequests = {}
            /\ net' = net
      ]_vars

C9_Witness ==
    /\ lastEvent = "effect"
    /\ selectedPlayerId = ""
    /\ players # <<>>
    /\ actions = <<>>
    /\ selectedPlayer = Null
    /\ \E r \in net : /\ r.kind = "actions" /\ r.status = "ok"
                      /\ r.data.isArray /\ r.data.items # <<>>

\* C10: once the startup list-players request has failed, the error message
\* is set, the player list is empty, the selection is empty, and no request
\* other than the startup one has been or is issued.
C10_StartupFailureIsFinal ==
    startup = "failed" =>
        /\ error # Null
        /\ players = <<>>
        /\ selectedPlayerId = ""
        /\ selectedPlayer = Null
        /\ net = {}
        /\ issued = 1

C10_Witness ==
    /\ startup = "failed"
    /\ lastEvent = "playersFail"
    /\ error = FailedPlayersMessage
    /\ ~loading

\* C11: the loading flag is false before the startup list-players request
\* is issued, true while it is in flight and false once it has resolved, with
\* any outcome; if requests do resolve, it becomes false for good.
C11_LoadingFollowsStartup ==
    /\ [](/\ startup = "unmounted" => ~loading
          /\ startup = "inflight" => (loading /\ InFlight({"players"}) # {})
          /\ startup \in {"ok", "failed"} => (~loading /\ InFlight({"players"}) = {}))
    /\ [][startup' # startup => (startup' = "inflight") = loading']_vars
    /\ <>[](startup \in {"ok", "failed"} /\ ~loading)

C11_Witness ==
    /\ startup = "failed"
    /\ lastEvent = "playersFail"
    /\ error = TransportMessage
    /\ ~loading

\* C12: the step in which a list-actions request fails leaves the action
\* log and every other state field as they were, sets no error message,
\* raises no notification and issues no request.
C12_FetchFailureKeepsLog ==
    [][ (Resolved("actions") # {} /\ lastEvent' = "actionsFail") =>
            /\ UNCHANGED store
            /\ alerts' = alerts
            /\ NewRequests = {}
      ]_vars

C12_Witness ==
    /\ lastEvent = "actionsFail"
    /\ actions # <<>>
    /\ error = Null
    /\ alerts = 0

\* C13: the step in which the effect issues the list-actions request for a
\* newly selected player leaves the action log empty, and in no state with a
\* non-empty selection (for which the effect has run) does the action log
\* hold an entry of another player.
C13_LogScopedToSelection ==
    /\ [][ (effectDeps'[1] # effectDeps[1] /\ effectDeps'[1] # "") => actions' = <<>> ]_vars
    /\ []((startup # "unmounted" /\ EffectIdle /\ selectedPlayerId # "") =>
            \A i \in 1..Len(actions) : actions[i].player_id = selectedPlayerId)

\* C14: a create-action request carries one plus the number of entries of
\* the action log that belong to the request's player.
C14_TurnCountsOwnEntries ==
    [][ \A q \in NewRequests :
            q.kind = "create" =>
                q.turn_number = 1 + Len(ActionsOf(actions, q.player_id))
      ]_vars

\* C15: neither the submit event nor the arrival of the create-action
\* response changes the action log; the log changes only when a list-actions
\* request resolves or the effect empties it.
C15_NoOptimisticInsertion ==
    [][ /\ (\E q \in NewRequests : q.kind = "create") => actions' = actions
        /\ Resolved("create") # {} => actions' = actions
        /\ actions' # actions =>
               \/ Resolved("actions") # {} /\ lastEvent' \in {"actionsOk", "actionsCoerced"}
               \/ effectDeps' # effectDeps /\ actions' = <<>>
      ]_vars

C15_Witness ==
    /\ lastEvent = "createOk"
    /\ selectedPlayerId # ""
    /\ Len(db) > preexisting
    /\ Len(ActionsOf(db, selectedPlayerId)) > Len(actions)

IsSequence(x) == DOMAIN x = 1..Cardinality(DOMAIN x)

\* C16: players and the action log are sequences in every state; a
\* successful response whose body is not an array sets the field to the
\* empty sequence and leaves the error message alone.
C16_NonArrayBecomesEmpty ==
    /\ [](IsSequence(players) /\ IsSequence(actions))
    /\ [][ /\ \A r \in Resolved("players") :
                (r.status = "ok" /\ ~r.data.isArray /\ lastEvent' = "playersCoerced") =>
                    (players' = <<>> /\ error' = error)
           /\ \A r \in Resolved("actions") :
                (r.status = "ok" /\ ~r.data.isArray /\ lastEvent' = "actionsCoerced") =>
                    (actions' = <<>> /\ error' = error)
         ]_vars

C16_Witness ==
    /\ lastEvent = "actionsCoerced"
    /\ actions = <<>>
    /\ error = Null
    /\ ActionsOf(db, selectedPlayerId) # <<>>

\* C17: all entries of the action log carry the same player_id; a resolved
\* list-actions request replaces the log by what it fetched.
C17_LogOfOnePlayer ==
    /\ [](\A i, j \in 1..Len(actions) : actions[i].player_id = actions[j].player_id)
    /\ [][ (Resolved("actions") # {} /\ lastEvent' \in {"actionsOk", "actionsCoerced"}) =>
               \E r \in Resolved("actions") :
                   actions' = IF r.data.isArray THEN r.data.items ELSE <<>>
         ]_vars

C17_Witness ==
    /\ lastEvent = "actionsOk"
    /\ Len(actions) >= 2
    /\ actions = ActionsOf(db, selectedPlayerId)

\* C18: while nothing is selected (and the effect has run for that), the
\* action log is empty.
C18_NoSelectionEmptyLog ==
    (startup # "unmounted" /\ EffectIdle /\ selectedPlayerId = "") => actions = <<>>

\* C19: when a successful create-action response empties a text buffer that
\* holds something, what it holds is the action_text that was sent: nothing
\* typed while the request was in flight is discarded.
C19_ClearsOnlySentText ==
    [][ \A r \in Resolved("create") :
            (lastEvent' = "createOk" /\ newActionText # <<>> /\ newActionText' = <<>>) =>
                newActionText = r.action_text
      ]_vars

====
